---------------------------- MODULE Spec2Model ----------------------------
(***************************************************************************)
(* Model of code/scripts/exponential_density.py: the analytical solution   *)
(* of a spherical shell with exponential density, the convergence sweep    *)
(* that compares the tesseroid integrator against it and caches one record *)
(* per (field, grid, thickness, b_factor), and the reduction of the stored *)
(* curves over thickness that the result plots draw.                       *)
(***************************************************************************)
EXTENDS Integers, Sequences, FiniteSets, TLC

(***************************************************************************)
(* Floating point.  Python floats and numpy float64 are IEEE-754 binary64. *)
(* The model keeps the format (round to nearest even, gradual underflow,   *)
(* overflow to infinity, NaN) and the binary64 exponent range, and shortens*)
(* the significand from 53 to Prec bits.  A number is a record             *)
(*   [k |-> "fin", m |-> m, e |-> e]   of value m * 2^e,                   *)
(* canonical: m = 0 and e = 0, or 2^(Prec-1) <= |m| < 2^Prec, or           *)
(* |m| < 2^(Prec-1) and e = EminRaw (subnormal); or k is "inf", "ninf",    *)
(* "nan".  Signed zeros are not distinguished.                             *)
(***************************************************************************)
Prec == 10

EMAX == 1023

EMIN == -1022

EminRaw == EMIN - (Prec - 1)

Pow2(n) == IF n <= 0 THEN 1 ELSE 2 ^ n

\* the number of bits of n >= 0, by halving the range
BitLen4(n) == IF n < 4 THEN (IF n < 2 THEN n ELSE 2) ELSE IF n < 8 THEN 3 ELSE 4

BitLen8(n) == IF n < 16 THEN BitLen4(n) ELSE 4 + BitLen4(n \div 16)

BitLen16(n) == IF n < 256 THEN BitLen8(n) ELSE 8 + BitLen8(n \div 256)

BitLen(n) ==
  IF n <= 0 THEN 0
  ELSE IF n < 65536 THEN BitLen16(n) ELSE 16 + BitLen16(n \div 65536)

IMax(a, b) == IF a >= b THEN a ELSE b

IMin(a, b) == IF a <= b THEN a ELSE b

IAbs(a) == IF a < 0 THEN -a ELSE a

NaN == [k |-> "nan", m |-> 0, e |-> 0]

PInf == [k |-> "inf", m |-> 0, e |-> 0]

NInf == [k |-> "ninf", m |-> 0, e |-> 0]

Zero == [k |-> "fin", m |-> 0, e |-> 0]

SInf(sg) == IF sg < 0 THEN NInf ELSE PInf

IsNaN(x) == x.k = "nan"

IsFin(x) == x.k = "fin"

IsInf(x) == x.k \in {"inf", "ninf"}

IsZero(x) == x.k = "fin" /\ x.m = 0

\* -1, 0 or 1 (NaN has no sign: 0)
Sgn(x) ==
  CASE x.k = "inf" -> 1
    [] x.k = "ninf" -> -1
    [] x.k = "nan" -> 0
    [] OTHER -> IF x.m > 0 THEN 1 ELSE IF x.m < 0 THEN -1 ELSE 0

\* a / 2^s rounded to nearest, ties to even (a >= 0, s >= 0)
RoundShift(a, s) ==
  IF s = 0 THEN a
  ELSE IF s > 30 THEN 0
  ELSE LET q == a \div Pow2(s)
           r == a % Pow2(s)
           h == Pow2(s - 1)
       IN IF r > h \/ (r = h /\ q % 2 = 1) THEN q + 1 ELSE q

\* the canonical number of sign sg and magnitude mant * 2^ex, ex in range
Pack(sg, mant, ex) ==
  IF mant = 0 THEN Zero
  ELSE IF ex + Prec - 1 > EMAX THEN SInf(sg)
  ELSE [k |-> "fin", m |-> sg * mant, e |-> ex]

\* the exact value a * 2^ex (a >= 0) of sign sg, rounded to the format
Norm(sg, a, ex) ==
  IF a = 0 THEN Zero
  ELSE LET bl == BitLen(a)
           eT == IMax(ex + bl - Prec, EminRaw)
           s  == eT - ex
       IN IF s <= 0 THEN Pack(sg, a * Pow2(-s), eT)
          ELSE LET q == RoundShift(a, s)
               IN IF q = Pow2(Prec) THEN Pack(sg, Pow2(Prec - 1), eT + 1)
                  ELSE Pack(sg, q, eT)

\* float(n) of a Python int
FromInt(n) == Norm(IF n < 0 THEN -1 ELSE 1, IAbs(n), 0)

fNeg(x) ==
  CASE x.k = "inf" -> NInf
    [] x.k = "ninf" -> PInf
    [] x.k = "nan" -> NaN
    [] OTHER -> [x EXCEPT !.m = -x.m]

fAbs(x) ==
  CASE x.k = "ninf" -> PInf
    [] x.k = "fin" -> [x EXCEPT !.m = IAbs(x.m)]
    [] OTHER -> x

fMul(x, y) ==
  IF IsNaN(x) \/ IsNaN(y) THEN NaN
  ELSE IF IsInf(x) \/ IsInf(y)
       THEN IF IsZero(x) \/ IsZero(y) THEN NaN ELSE SInf(Sgn(x) * Sgn(y))
  ELSE Norm(Sgn(x) * Sgn(y), IAbs(x.m) * IAbs(y.m), x.e + y.e)

\* a finite nonzero mantissa shifted up to Prec bits, with its shift
Full(m) == Prec - BitLen(IAbs(m))

\* IEEE division as numpy does it: x/0 is +-inf (0/0 is NaN), no exception
fDiv(x, y) ==
  IF IsNaN(x) \/ IsNaN(y) THEN NaN
  ELSE IF IsInf(x) THEN (IF IsInf(y) THEN NaN
                         ELSE SInf(Sgn(x) * (IF Sgn(y) < 0 THEN -1 ELSE 1)))
  ELSE IF IsInf(y) THEN Zero
  ELSE IF IsZero(y) THEN (IF IsZero(x) THEN NaN ELSE SInf(Sgn(x)))
  ELSE IF IsZero(x) THEN Zero
  ELSE LET sx == Full(x.m)
           sy == Full(y.m)
           a  == IAbs(x.m) * Pow2(sx)
           b  == IAbs(y.m) * Pow2(sy)
           n  == a * Pow2(Prec + 2)
           q  == n \div b
           st == IF n % b = 0 THEN 0 ELSE 1
       IN Norm(Sgn(x) * Sgn(y), 2 * q + st,
               (x.e - sx) - (y.e - sy) - (Prec + 2) - 1)

fAdd(x, y) ==
  IF IsNaN(x) \/ IsNaN(y) THEN NaN
  ELSE IF IsInf(x) THEN (IF IsInf(y) /\ x.k # y.k THEN NaN ELSE x)
  ELSE IF IsInf(y) THEN y
  ELSE IF IsZero(x) THEN y
  ELSE IF IsZero(y) THEN x
  ELSE LET hi == IF x.e >= y.e THEN x ELSE y
           lo == IF x.e >= y.e THEN y ELSE x
           d  == hi.e - lo.e
       IN IF d > Prec + 2 THEN hi
          ELSE LET s == hi.m * Pow2(d) + lo.m
               IN Norm(IF s < 0 THEN -1 ELSE 1, IAbs(s), lo.e)

fSub(x, y) == fAdd(x, fNeg(y))

\* x < y and x <= y of IEEE (false when either is NaN)
fLt(x, y) ==
  /\ ~IsNaN(x)
  /\ ~IsNaN(y)
  /\ x # y
  /\ IF IsInf(x) \/ IsInf(y) THEN x.k = "ninf" \/ y.k = "inf"
     ELSE Sgn(fSub(x, y)) < 0

fLe(x, y) == ~IsNaN(x) /\ ~IsNaN(y) /\ (x = y \/ fLt(x, y))


One == FromInt(1)

Two == FromInt(2)

\* 2^(j/8) * 128 for j = 0..7
ExpTab == <<128, 140, 152, 166, 181, 197, 215, 235>>

\* np.exp to the model's precision: e^x = 2^(x * log2 e), x * 8 * log2 e
\* taken to the integer below (8 * log2 e = 11.54 = 739/64) and the
\* fractional power of two read from ExpTab.  Overflows to inf above
\* about 709.8 and underflows to 0, as binary64 does.
fExp(x) ==
  CASE x.k = "nan" -> NaN
    [] x.k = "inf" -> PInf
    [] x.k = "ninf" -> Zero
    [] OTHER ->
       IF x.m = 0 THEN One
       ELSE IF x.e + BitLen(IAbs(x.m)) > 11
            THEN (IF x.m > 0 THEN PInf ELSE Zero)
       ELSE LET sh == x.e + 6
                X  == IF sh >= 0 THEN x.m * Pow2(sh)
                      ELSE IF -sh > 30 THEN (IF x.m < 0 THEN -1 ELSE 0)
                      ELSE x.m \div Pow2(-sh)
                t  == (X * 739) \div 4096
            IN Norm(1, ExpTab[(t % 8) + 1], (t \div 8) - 7)

\* x ** n for a small positive integer n, by repeated multiplication
RECURSIVE fPow(_, _)
fPow(x, n) == IF n <= 1 THEN x ELSE fMul(fPow(x, n - 1), x)

\* Python's float ** int raises OverflowError when a finite base overflows
PowRaises(x, n) == IsFin(x) /\ IsInf(fPow(x, n))

\* int(x) of a finite float: truncation toward zero
IntOf(x) ==
  IF x.e >= 0 THEN x.m * Pow2(x.e)
  ELSE IF -x.e > 30 THEN 0
  ELSE (IF x.m < 0 THEN -1 ELSE 1) * (IAbs(x.m) \div Pow2(-x.e))

\* np.max of two values: NaN if either is NaN
fMax2(x, y) ==
  IF IsNaN(x) \/ IsNaN(y) THEN NaN ELSE IF fLt(x, y) THEN y ELSE x

\* np.max over a non-empty sequence
RECURSIVE fMaxSeq(_)
fMaxSeq(s) == IF Len(s) = 1 THEN s[1] ELSE fMax2(s[1], fMaxSeq(Tail(s)))

(***************************************************************************)
(* fatiando.constants                                                      *)
(***************************************************************************)
PI == Norm(1, 3217, -10)

\* 6.673e-11
G == Norm(1, 1174, -44)

MEAN_EARTH_RADIUS == FromInt(6378137)

SI2MGAL == FromInt(100000)

SI2EOTVOS == FromInt(1000000000)

(***************************************************************************)
(* shell_exponential_density(height, top, bottom, amplitude, b_factor,     *)
(* constant_term), called as the sweep calls it: height, amplitude and     *)
(* constant_term are numpy float64 (a division of theirs by zero gives     *)
(* inf or NaN with a warning), top, bottom and b_factor are Python         *)
(* numbers (a division of theirs by zero raises ZeroDivisionError, a       *)
(* power of theirs that overflows raises OverflowError).  The result is    *)
(* [err |-> "none", data |-> the dict] or [err |-> the exception].         *)
(***************************************************************************)
FieldNames == {"potential", "gx", "gy", "gz", "gxx", "gxy", "gxz", "gyy", "gyz", "gzz"}

NoData == [f \in FieldNames |-> Zero]

Raise(exc) == [err |-> exc, data |-> NoData]

\* line 30-35
shell_potential(r, r1, r2, top, bottom, k, amplitude, constant_term) ==
  LET head == fDiv(fDiv(fMul(fMul(fMul(FromInt(4), PI), G), amplitude),
                        fPow(k, 3)), r)
      q1 == fMul(fAdd(fAdd(fPow(fMul(r1, k), 2), fMul(fMul(Two, r1), k)), Two),
                 fExp(fMul(fNeg(k), bottom)))
      q2 == fMul(fAdd(fAdd(fPow(fMul(r2, k), 2), fMul(fMul(Two, r2), k)), Two),
                 fExp(fMul(fNeg(k), top)))
      tail == fDiv(fMul(fMul(fMul(fMul(fDiv(FromInt(4), FromInt(3)), PI), G),
                             constant_term),
                        fSub(fPow(r2, 3), fPow(r1, 3))), r)
  IN fAdd(fMul(head, fSub(q1, q2)), tail)


\* a slip: gzz without its factor 2
shell_data_gzz(potential, r) ==
  [f \in FieldNames |->
     CASE f = "potential" -> potential
       [] f = "gz"  -> fMul(SI2MGAL, fDiv(potential, r))
       [] f = "gxx" -> fMul(SI2EOTVOS, fDiv(fNeg(potential), fPow(r, 2)))
       [] f = "gyy" -> fMul(SI2EOTVOS, fDiv(fNeg(potential), fPow(r, 2)))
       [] f = "gzz" -> fMul(SI2EOTVOS, fDiv(potential, fPow(r, 2)))
       [] OTHER -> Zero]

\* line 36-45
shell_data(potential, r) ==
  [f \in FieldNames |->
     CASE f = "potential" -> potential
       [] f = "gz"  -> fMul(SI2MGAL, fDiv(potential, r))
       [] f = "gxx" -> fMul(SI2EOTVOS, fDiv(fNeg(potential), fPow(r, 2)))
       [] f = "gyy" -> fMul(SI2EOTVOS, fDiv(fNeg(potential), fPow(r, 2)))
       [] f = "gzz" -> fMul(SI2EOTVOS, fDiv(fMul(Two, potential), fPow(r, 2)))
       [] OTHER -> Zero]

shell_exponential_density(height, top, bottom, amplitude, b_factor, constant_term) ==
  LET r  == fAdd(height, MEAN_EARTH_RADIUS)
      r1 == fAdd(bottom, MEAN_EARTH_RADIUS)
      r2 == fAdd(top, MEAN_EARTH_RADIUS)
      thickness == fSub(top, bottom)
      k  == fDiv(b_factor, thickness)
  IN IF IsZero(thickness) THEN Raise("ZeroDivisionError")
     ELSE IF \/ PowRaises(k, 3)
             \/ PowRaises(fMul(r1, k), 2)
             \/ PowRaises(fMul(r2, k), 2)
             \/ PowRaises(r2, 3)
             \/ PowRaises(r1, 3)
          THEN Raise("OverflowError")
     ELSE [err |-> "none",
           data |-> shell_data(shell_potential(r, r1, r2, top, bottom, k,
                                               amplitude, constant_term), r)]


(***************************************************************************)
(* Configuration of the sweep (lines 59-80).  The script's lists are cut   *)
(* to their first NThick, NB, NGrid entries, its grids to NPts points and  *)
(* delta_values to NDelta log-spaced values.                               *)
(***************************************************************************)
NThick == 2

NB == 2

NGrid == 1

NDelta == 2

NPts == 2

MaxRuns == 2

AllThicknesses == <<100, 1000, 10000, 100000, 1000000>>

thicknesses == SubSeq(AllThicknesses, 1, IMin(NThick, Len(AllThicknesses)))

\* TesseroidMesh((0, 360, -90, 90, 0, -thickness), shape).bounds[4], [5]
ModelTop(mi) == Zero

ModelBottom(mi) == fNeg(FromInt(thicknesses[mi]))

AllGridNames == <<"pole", "equator", "global", "260km">>

AllGridZ == <<0, 0, 0, 260000>>

grid_names == SubSeq(AllGridNames, 1, IMin(NGrid, Len(AllGridNames)))

\* heights[0] of gridder.regular(area, shape, z=z)
GridHeight(gi) == FromInt(AllGridZ[gi])

fields == <<"potential", "gz">>

density_bottom == 3300

density_top == 2670

AllBFactors == <<1, 2, 5, 10, 30, 100>>

b_factors == SubSeq(AllBFactors, 1, IMin(NB, Len(AllBFactors)))

\* np.logspace(start, stop, num): 10^x for num evenly spaced exponents x
\* from start to stop.  A value is kept as its exponent times (num - 1).
Logspace(start, stop, num) ==
  [i \in 1..num |-> start * (num - 1) + (i - 1) * (stop - start)]

delta_values == Logspace(-3, 1, NDelta)

FI == 1..Len(fields)

MI == 1..Len(thicknesses)

BI == 1..Len(b_factors)

GI == 1..Len(grid_names)

\* fname without the directory and the extension, from the loop's values:
\* "{}-{}-{}-{}".format(field, grid_name, int(thickness), int(b_factor))
FileName(field, grid_name, thickness, b_factor) ==
  <<field, grid_name, IntOf(thickness), IntOf(b_factor)>>

\* thickness = top - bottom of model mi (lines 88, 182)
ModelThickness(mi) == fSub(ModelTop(mi), ModelBottom(mi))

KeyOf(f, g, m, b) ==
  FileName(fields[f], grid_names[g], ModelThickness(m), FromInt(b_factors[b]))

Keys == {KeyOf(f, g, m, b) : f \in FI, g \in GI, m \in MI, b \in BI}

(***************************************************************************)
(* Files of result_dir.  A file is absent, a record np.savez wrote, or     *)
(* malformed (what a write cut short leaves).                              *)
(***************************************************************************)
Absent == [st |-> "absent", delta_values |-> <<>>, differences |-> <<>>]

Malformed == [st |-> "malformed", delta_values |-> <<>>, differences |-> <<>>]

Record(dv, diffs) == [st |-> "ok", delta_values |-> dv, differences |-> diffs]

(***************************************************************************)
(* The tesseroid integrator (tesseroid_density.tesseroid), which is not in *)
(* the script: getattr(tesseroid, field)(lons, lats, heights, model,       *)
(* delta=delta) returns one value per grid point.  It evaluates the        *)
(* density functions attached to the model when it is called; these read   *)
(* the module globals amplitude, b_factor, thickness and constant_term.    *)
(* The model of it: the field of the shell of the mesh's bounds with the   *)
(* density it evaluates, off by a discretisation error that depends on the *)
(* grid point and on delta; at most once in a run it misbehaves: a call     *)
(* returns NaN, inf or -inf at one grid point, or raises.                  *)
(***************************************************************************)
NoFault == [kind |-> "none", p |-> 0]

\* what a call that misbehaves returns, and at which grid point
Faults == {[kind |-> kd, p |-> pp] : kd \in {"nan", "inf", "ninf"}, pp \in 1..NPts}

\* 1 + (1 + (gi + 2 d + 3 p) mod 5) / 128
ErrFactor(gi, d, p) == Norm(1, 129 + ((gi + 2 * d + 3 * p) % 5), -7)

\* the density law the integrator sees: density_exponential's free names
Seen(g) == [amplitude |-> g.amplitude, b_factor |-> g.b_factor,
            constant_term |-> g.constant_term, thickness |-> g.thickness]

tesseroid(field, gi, mi, d, dens, flt) ==
  LET r  == fAdd(GridHeight(gi), MEAN_EARTH_RADIUS)
      r1 == fAdd(ModelBottom(mi), MEAN_EARTH_RADIUS)
      r2 == fAdd(ModelTop(mi), MEAN_EARTH_RADIUS)
      k  == fDiv(dens.b_factor, dens.thickness)
      exact == shell_data(shell_potential(r, r1, r2, ModelTop(mi), ModelBottom(mi),
                                          k, dens.amplitude, dens.constant_term),
                          r)[field]
  IN [p \in 1..NPts |->
        IF flt.kind \in {"nan", "inf", "ninf"} /\ flt.p = p
        THEN (CASE flt.kind = "nan" -> NaN
                [] flt.kind = "inf" -> PInf
                [] OTHER -> NInf)
        ELSE fMul(exact, ErrFactor(gi, d, p))]


(***************************************************************************)
(* State.                                                                  *)
(*   pc          where the script is: "for_model" (86-88), "for_b"         *)
(*               (90-107), "for_grid" (109-121), "for_delta" (122-130),    *)
(*               "saved" (after 130), "plot_densities" (135-157),          *)
(*               "plot_results" (169-220), "finished"; "aborted" after an  *)
(*               uncaught exception, "interrupted" after a kill; "shell"   *)
(*               in the specification of shell_exponential_density alone   *)
(*   fi mi bi gi the sweep's loop positions (field, model, b_factor, grid) *)
(*   glob        the module globals density_exponential reads, with top    *)
(*               and bottom                                                *)
(*   density     per model: whether addprop attached density functions     *)
(*   analytical, differences   the names of lines 118-128                  *)
(*   store       result_dir: file name -> file                             *)
(*   pgi pfi pbi the plot loops' positions (grid, field, b_factor)         *)
(*   curve       the last differences_per_b drawn, with what it is of      *)
(*   run, store0, ncalls, calllog, skipped, wrote   history: the run's     *)
(*               number, the store it started with, its integrator calls,  *)
(*               the calls made for the current tuple (delta, what the     *)
(*               density functions evaluated with, the result), the file   *)
(*               names it skipped and wrote                                *)
(*   misbehaved  whether the integrator has misbehaved in this run: "no",  *)
(*               "nonfinite" or "raise"; "never" for one that works        *)
(*   args, ret   shell_exponential_density's arguments and return value    *)
(***************************************************************************)
VARIABLES pc, fi, mi, bi, gi, glob, density, analytical, differences, store,
          pgi, pfi, pbi, curve, run, store0, ncalls, calllog, skipped, wrote,
          misbehaved, args, ret

vars == <<pc, fi, mi, bi, gi, glob, density, analytical, differences, store,
          pgi, pfi, pbi, curve, run, store0, ncalls, calllog, skipped, wrote,
          misbehaved, args, ret>>

loopvars == <<fi, mi, bi, gi>>

plotvars == <<pgi, pfi, pbi, curve>>

shellvars == <<args, ret>>

Unbound == [k |-> "unbound", m |-> 0, e |-> 0]

NoGlob == [top |-> Unbound, bottom |-> Unbound, thickness |-> Unbound,
           b_factor |-> Unbound, amplitude |-> Unbound, constant_term |-> Unbound]

NoCurve == [of |-> <<>>, vals |-> <<>>]

NoAnalytical == Raise("unbound")

NoArgs == [height |-> Zero, top |-> Zero, bottom |-> Zero, amplitude |-> Zero,
           b_factor |-> Zero, constant_term |-> Zero]

\* the interpreter's state when the script starts
ProcStart ==
  /\ fi = 1 /\ mi = 1 /\ bi = 1 /\ gi = 1
  /\ glob = NoGlob
  /\ density = [m \in MI |-> FALSE]
  /\ analytical = NoAnalytical
  /\ differences = <<>>
  /\ pgi = 1 /\ pfi = 1 /\ pbi = 1
  /\ curve = NoCurve
  /\ ncalls = 0
  /\ calllog = <<>>
  /\ skipped = {}
  /\ wrote = {}

ProcStartNext ==
  /\ fi' = 1 /\ mi' = 1 /\ bi' = 1 /\ gi' = 1
  /\ glob' = NoGlob
  /\ density' = [m \in MI |-> FALSE]
  /\ analytical' = NoAnalytical
  /\ differences' = <<>>
  /\ pgi' = 1 /\ pfi' = 1 /\ pbi' = 1
  /\ curve' = NoCurve
  /\ ncalls' = 0
  /\ calllog' = <<>>
  /\ skipped' = {}
  /\ wrote' = {}

\* lines 51-54: result_dir is created empty if it does not exist
InitSweep ==
  /\ pc = "for_model"
  /\ ProcStart
  /\ store = [k \in Keys |-> Absent]
  /\ store0 = store
  /\ run = 1
  /\ args = NoArgs
  /\ ret = Raise("not called")

Init == InitSweep /\ misbehaved = "never"

InitFault == InitSweep /\ misbehaved = "no"

CurKey == KeyOf(fi, gi, mi, bi)

\* line 86-88: top, bottom = model.bounds[4], model.bounds[5]
BindModel(g, m) ==
  [g EXCEPT !.top = ModelTop(m), !.bottom = ModelBottom(m),
            !.thickness = fSub(ModelTop(m), ModelBottom(m))]

ForModel ==
  /\ pc = "for_model"
  /\ glob' = BindModel(glob, mi)
  /\ pc' = "for_b"
  /\ UNCHANGED <<loopvars, density, analytical, differences, store, plotvars,
                 run, store0, ncalls, calllog, skipped, wrote, misbehaved, shellvars>>

\* line 91-97 (and 139-145): the density law through the two anchors
SolveDenominator(g, b) ==
  fSub(fExp(fDiv(fMul(fNeg(g.bottom), b), g.thickness)),
       fExp(fDiv(fMul(fNeg(g.top), b), g.thickness)))

SolveAmplitude(g, b) ==
  fDiv(FromInt(density_bottom - density_top), SolveDenominator(g, b))

SolveConstantTerm(g, b) ==
  fDiv(fSub(fMul(FromInt(density_top),
                 fExp(fDiv(fMul(fNeg(g.bottom), b), g.thickness))),
            fMul(FromInt(density_bottom),
                 fExp(fDiv(fMul(fNeg(g.top), b), g.thickness)))),
       SolveDenominator(g, b))


\* a slip: amplitude and constant_term solved on the first iteration only
BindB_stale(g, b) ==
  IF g.amplitude = Unbound
  THEN [g EXCEPT !.b_factor = b, !.amplitude = SolveAmplitude(g, b),
                 !.constant_term = SolveConstantTerm(g, b)]
  ELSE [g EXCEPT !.b_factor = b]

\* line 90-97: the loop binds b_factor, then amplitude and constant_term
BindB(g, b) ==
  [g EXCEPT !.b_factor = b, !.amplitude = SolveAmplitude(g, b),
            !.constant_term = SolveConstantTerm(g, b)]

\* line 90-107
ForB ==
  /\ pc = "for_b"
  /\ glob' = BindB(glob, FromInt(b_factors[bi]))
  /\ density' = [density EXCEPT ![mi] = TRUE]
  /\ pc' = "for_grid"
  /\ UNCHANGED <<loopvars, analytical, differences, store, plotvars,
                 run, store0, ncalls, calllog, skipped, wrote, misbehaved, shellvars>>


\* a slip: the cache is never looked at
isfile_never(key) == FALSE

\* line 112: os.path.isfile(os.path.join(result_dir, fname))
isfile(key) == store[key].st # "absent"

\* the for statements of lines 109, 90, 86, 85 taking their next item
NextIteration ==
  IF gi < Len(grid_names)
  THEN gi' = gi + 1 /\ pc' = "for_grid" /\ UNCHANGED <<fi, mi, bi>>
  ELSE IF bi < Len(b_factors)
  THEN gi' = 1 /\ bi' = bi + 1 /\ pc' = "for_b" /\ UNCHANGED <<fi, mi>>
  ELSE IF mi < Len(thicknesses)
  THEN gi' = 1 /\ bi' = 1 /\ mi' = mi + 1 /\ pc' = "for_model" /\ UNCHANGED fi
  ELSE IF fi < Len(fields)
  THEN gi' = 1 /\ bi' = 1 /\ mi' = 1 /\ fi' = fi + 1 /\ pc' = "for_model"
  ELSE pc' = "plot_densities" /\ UNCHANGED loopvars

\* line 109-113: the record is there, continue
ForGridSkip ==
  /\ pc = "for_grid"
  /\ isfile(FileName(fields[fi], grid_names[gi], glob.thickness, glob.b_factor))
  /\ skipped' = skipped \cup {CurKey}
  /\ NextIteration
  /\ UNCHANGED <<glob, density, analytical, differences, store, plotvars,
                 run, store0, ncalls, calllog, wrote, misbehaved, shellvars>>

\* line 109-121: compute the analytical solution, start the delta loop;
\* an exception of shell_exponential_density ends the script
ForGridStart ==
  /\ pc = "for_grid"
  /\ ~isfile(FileName(fields[fi], grid_names[gi], glob.thickness, glob.b_factor))
  /\ LET a == shell_exponential_density(GridHeight(gi), glob.top, glob.bottom,
                                        glob.amplitude, glob.b_factor,
                                        glob.constant_term)
     IN /\ analytical' = a
        /\ pc' = IF a.err = "none" THEN "for_delta" ELSE "aborted"
  /\ differences' = <<>>
  /\ calllog' = <<>>
  /\ UNCHANGED <<loopvars, glob, density, store, plotvars,
                 run, store0, ncalls, skipped, wrote, misbehaved, shellvars>>


\* a slip: the first grid point instead of the maximum over the grid
PercentMaxError_first(result, a) ==
  fMul(FromInt(100), fAbs(fDiv(fSub(result[1], a), a)))

\* a slip: np.nanmax, which skips NaN (and gives 0 here when all are NaN)
PercentMaxError_nanmax(result, a) ==
  LET pts == [p \in 1..NPts |-> fAbs(fDiv(fSub(result[p], a), a))]
      ok  == SelectSeq(pts, LAMBDA v : ~IsNaN(v))
  IN fMul(FromInt(100), IF ok = <<>> THEN Zero ELSE fMaxSeq(ok))

\* line 125-126: diff = np.abs((result - a) / a); diff = 100 * np.max(diff)
PercentMaxError(result, a) ==
  fMul(FromInt(100),
       fMaxSeq([p \in 1..NPts |-> fAbs(fDiv(fSub(result[p], a), a))]))

\* line 122-127: one integrator call, which returns, and one entry of
\* differences
DeltaStep(flt) ==
  /\ pc = "for_delta"
  /\ Len(differences) < NDelta
  /\ LET d == Len(differences) + 1
         result == tesseroid(fields[fi], gi, mi, d, Seen(glob), flt)
     IN /\ differences' = Append(differences,
                                 PercentMaxError(result, analytical.data[fields[fi]]))
        /\ calllog' = Append(calllog, [delta |-> delta_values[d],
                                       seen |-> Seen(glob), result |-> result])
  /\ ncalls' = ncalls + 1
  /\ UNCHANGED <<pc, loopvars, glob, density, analytical, store, plotvars,
                 run, store0, skipped, wrote, shellvars>>

\* the values a call returns: those of an integrator that works or, once in
\* a run with an integrator that may misbehave, one that is not finite
ForDelta ==
  \E flt \in {NoFault} \cup (IF misbehaved = "no" THEN Faults ELSE {}) :
    /\ DeltaStep(flt)
    /\ misbehaved' = IF flt = NoFault THEN misbehaved ELSE "nonfinite"

\* line 123: the integrator raises; nothing catches it
ForDeltaRaise ==
  /\ pc = "for_delta"
  /\ Len(differences) < NDelta
  /\ misbehaved = "no"
  /\ misbehaved' = "raise"
  /\ ncalls' = ncalls + 1
  /\ pc' = "aborted"
  /\ UNCHANGED <<loopvars, glob, density, analytical, differences, store, plotvars,
                 run, store0, calllog, skipped, wrote, shellvars>>

\* line 128-130: np.savez(fname, delta_values=..., differences=...)
Save ==
  /\ pc = "for_delta"
  /\ Len(differences) = NDelta
  /\ LET key == FileName(fields[fi], grid_names[gi], glob.thickness, glob.b_factor)
     IN /\ store' = [store EXCEPT ![key] = Record(delta_values, differences)]
        /\ wrote' = wrote \cup {key}
  /\ pc' = "saved"
  /\ UNCHANGED <<loopvars, glob, density, analytical, differences, plotvars,
                 run, store0, ncalls, calllog, skipped, misbehaved, shellvars>>

\* after line 130: on to the next grid
AfterSave ==
  /\ pc = "saved"
  /\ NextIteration
  /\ UNCHANGED <<glob, density, analytical, differences, store, plotvars,
                 run, store0, ncalls, calllog, skipped, wrote, misbehaved, shellvars>>


\* line 135-157: the density plots rebind bottom, top, thickness and, for
\* each b_factor in turn, amplitude and constant_term
PlotDensities ==
  /\ pc = "plot_densities"
  /\ glob' = BindB([glob EXCEPT !.bottom = Zero, !.top = One,
                                !.thickness = fSub(One, Zero)],
                   FromInt(b_factors[Len(b_factors)]))
  /\ pc' = "plot_results"
  /\ UNCHANGED <<loopvars, density, analytical, differences, store, plotvars,
                 run, store0, ncalls, calllog, skipped, wrote, misbehaved, shellvars>>


\* a slip: np.nanmax, which skips NaN
MaxOverThickness_nanmax(curves) ==
  [i \in 1..Len(curves[1]) |->
     LET col == [t \in 1..Len(curves) |-> curves[t][i]]
         ok  == SelectSeq(col, LAMBDA v : ~IsNaN(v))
     IN IF ok = <<>> THEN Zero ELSE fMaxSeq(ok)]

\* line 189-190: np.max(np.array(differences_per_b), axis=0)
MaxOverThickness(curves) ==
  [i \in 1..Len(curves[1]) |-> fMaxSeq([t \in 1..Len(curves) |-> curves[t][i]])]

\* line 183-184, in the plot loops
PlotFileName(f, g, m, b) ==
  FileName(fields[f], grid_names[g], ModelThickness(m), FromInt(b_factors[b]))

\* np.load of a file that is missing or no archive raises
Loadable(key) == store[key].st = "ok"

\* line 169-192: one curve: the records of every model are loaded and
\* reduced; then the loops of lines 178, 176, 169 take their next item
PlotCurve ==
  /\ pc = "plot_results"
  /\ LET names == [m \in MI |-> PlotFileName(pfi, pgi, m, pbi)]
     IN IF \A m \in MI : Loadable(names[m])
        THEN /\ curve' = [of |-> <<pfi, pgi, pbi>>,
                          vals |-> MaxOverThickness(
                                     [m \in MI |-> store[names[m]].differences])]
             /\ differences' = store[names[Len(thicknesses)]].differences
             /\ glob' = [glob EXCEPT !.thickness = ModelThickness(Len(thicknesses)),
                                     !.b_factor = FromInt(b_factors[pbi])]
             /\ IF pbi < Len(b_factors)
                THEN pbi' = pbi + 1 /\ pc' = pc /\ UNCHANGED <<pgi, pfi>>
                ELSE IF pfi < Len(fields)
                THEN pbi' = 1 /\ pfi' = pfi + 1 /\ pc' = pc /\ UNCHANGED pgi
                ELSE IF pgi < Len(grid_names)
                THEN pbi' = 1 /\ pfi' = 1 /\ pgi' = pgi + 1 /\ pc' = pc
                ELSE pc' = "finished" /\ UNCHANGED <<pgi, pfi, pbi>>
        ELSE /\ pc' = "aborted"
             /\ UNCHANGED <<glob, differences, plotvars>>
  /\ UNCHANGED <<loopvars, density, analytical, store,
                 run, store0, ncalls, calllog, skipped, wrote, misbehaved, shellvars>>

Running == {"for_model", "for_b", "for_grid", "for_delta", "saved",
            "plot_densities", "plot_results"}

\* the process is killed: its memory is gone, result_dir stays
Interrupt ==
  /\ pc \in Running
  /\ pc' = "interrupted"
  /\ ProcStartNext
  /\ UNCHANGED <<store, run, store0, misbehaved, shellvars>>

\* the process is killed inside np.savez (line 129), which writes the
\* archive in place: the file is there and is no archive
InterruptSave ==
  /\ pc = "for_delta"
  /\ Len(differences) = NDelta
  /\ store' = [store EXCEPT
                 ![FileName(fields[fi], grid_names[gi], glob.thickness,
                            glob.b_factor)] = Malformed]
  /\ pc' = "interrupted"
  /\ ProcStartNext
  /\ UNCHANGED <<run, store0, misbehaved, shellvars>>

\* the script is run again on the same result_dir
Rerun ==
  /\ pc \in {"interrupted", "aborted", "finished"}
  /\ run < MaxRuns
  /\ pc' = "for_model"
  /\ ProcStartNext
  /\ run' = run + 1
  /\ store0' = store
  /\ UNCHANGED <<store, misbehaved, shellvars>>

Sweep ==
  \/ ForModel
  \/ ForB
  \/ ForGridSkip
  \/ ForGridStart
  \/ ForDelta
  \/ Save
  \/ AfterSave
  \/ PlotDensities
  \/ PlotCurve

\* the script, killed and run again at will, with an integrator that works
Next == Sweep \/ Interrupt \/ InterruptSave \/ Rerun

Spec == Init /\ [][Next]_vars

\* one run of the script with an integrator that may misbehave
NextFault ==
  \/ ForModel
  \/ ForB
  \/ ForGridStart
  \/ ForDelta
  \/ ForDeltaRaise
  \/ Save
  \/ AfterSave
  \/ PlotDensities
  \/ PlotCurve

SpecFault == InitFault /\ [][NextFault]_vars

(***************************************************************************)
(* shell_exponential_density alone, on arguments from a bounded set.       *)
(***************************************************************************)
ShellHeights == {Zero, FromInt(260000), fNeg(MEAN_EARTH_RADIUS), Norm(-1, 778, 13)}

ShellBounds == {<<Zero, FromInt(-100)>>, <<Zero, FromInt(-1000)>>,
                <<FromInt(-100), FromInt(-100)>>, <<FromInt(1000), Zero>>}

ShellBFactors == {Zero, One, Two, FromInt(1000)}

ShellAmplitudes == {FromInt(366), Norm(1, 683, -990), Norm(1, 683, 1001), PInf}

ShellConstantTerms == {FromInt(2303), Zero}

ShellArgs ==
  {[height |-> h, top |-> tb[1], bottom |-> tb[2], amplitude |-> a,
    b_factor |-> b, constant_term |-> c] :
     h \in ShellHeights, tb \in ShellBounds, a \in ShellAmplitudes,
     b \in ShellBFactors, c \in ShellConstantTerms}

InitShell ==
  /\ pc = "shell"
  /\ ProcStart
  /\ store = [k \in Keys |-> Absent]
  /\ store0 = store
  /\ run = 1
  /\ misbehaved = "no"
  /\ args \in ShellArgs
  /\ ret = Raise("not called")

ShellCall ==
  /\ pc = "shell"
  /\ ret = Raise("not called")
  /\ ret' = shell_exponential_density(args.height, args.top, args.bottom,
                                      args.amplitude, args.b_factor,
                                      args.constant_term)
  /\ UNCHANGED <<pc, loopvars, glob, density, analytical, differences, store,
                 plotvars, run, store0, ncalls, calllog, skipped, wrote, misbehaved, args>>

NextShell == ShellCall

SpecShell == InitShell /\ [][NextShell]_vars


(***************************************************************************)
(* Properties.                                                             *)
(***************************************************************************)
\* == of two floats (NaN equals nothing)
fEq(x, y) == ~IsNaN(x) /\ ~IsNaN(y) /\ x = y

IsNormal(x) == IsFin(x) /\ IAbs(x.m) >= Pow2(Prec - 1)

AllRecorded(st) == \A k \in DOMAIN st : st[k].st = "ok"

\* 100 |v - a| / |a| at one grid point
PointPercent(v, a) == fMul(FromInt(100), fAbs(fDiv(fSub(v, a), a)))

\* err is the largest percent error over the grid, NaN if one is NaN
IsWorstCase(err, result, a) ==
  IF \E p \in 1..NPts : IsNaN(PointPercent(result[p], a))
  THEN IsNaN(err)
  ELSE /\ \E p \in 1..NPts : err = PointPercent(result[p], a)
       /\ \A p \in 1..NPts : fLe(PointPercent(result[p], a), err)

\* the density law solved for model m and b_factor b alone
DensityFor(m, b) == Seen(BindB(BindModel(NoGlob, m), FromInt(b_factors[b])))

\* the analytical solution for grid g, model m and b_factor b alone
AnalyticalFor(g, m, b) ==
  LET dens == DensityFor(m, b)
  IN shell_exponential_density(GridHeight(g), ModelTop(m), ModelBottom(m),
                               dens.amplitude, dens.b_factor, dens.constant_term)

\* the differences of a tuple computed on its own
DifferencesFor(f, g, m, b) ==
  LET dens == DensityFor(m, b)
      a == AnalyticalFor(g, m, b).data[fields[f]]
  IN [d \in 1..NDelta |->
        PercentMaxError(tesseroid(fields[f], g, m, d, dens, NoFault), a)]

\* C1: a run that starts with a record for every tuple makes no integrator
\* call and leaves every stored record as it was.
C1_RerunIdempotent ==
  AllRecorded(store0) => (ncalls = 0 /\ wrote = {} /\ store = store0)

C1_Witness ==
  /\ run > 1
  /\ AllRecorded(store0)
  /\ pc = "finished"

\* C2: every record the sweep writes pairs control_values and errors of
\* equal length, errors[i] being the worst-case percent error of the one
\* integrator call made with control_values[i], and control_values is
\* non-decreasing.
C2_RecordPaired ==
  pc = "saved" =>
    LET rec == store[CurKey]
    IN /\ rec.st = "ok"
       /\ Len(rec.delta_values) = Len(rec.differences)
       /\ Len(calllog) = Len(rec.differences)
       /\ \A i \in 1..Len(rec.differences) :
            /\ calllog[i].delta = rec.delta_values[i]
            /\ IsWorstCase(rec.differences[i], calllog[i].result,
                           analytical.data[fields[fi]])
       /\ \A i, j \in 1..Len(rec.delta_values) :
            i <= j => rec.delta_values[i] <= rec.delta_values[j]

C2_Witness ==
  /\ pc = "saved"
  /\ Len(store[CurKey].differences) = NDelta
  /\ \E i \in 1..NDelta :
       /\ IsFin(store[CurKey].differences[i])
       /\ store[CurKey].differences[i]
            # PointPercent(calllog[i].result[1], analytical.data[fields[fi]])

\* the calls of the current tuple that returned a value that is not finite
NonFiniteCalls ==
  {i \in 1..Len(calllog) : \E p \in 1..NPts : ~IsFin(calllog[i].result[p])}

\* C3 as claimed: a non-finite integrator value neither ends the sweep nor
\* drops the sample, and the entry at its control value is NaN.
C3_NonFiniteIsNaN ==
  /\ misbehaved = "nonfinite" => pc # "aborted"
  /\ pc = "saved" =>
       /\ Len(store[CurKey].differences) = NDelta
       /\ \A i \in NonFiniteCalls : IsNaN(store[CurKey].differences[i])

\* C3 as amended: the entry is not finite: NaN if the integrator returned
\* NaN, +inf if it returned an infinity.
C3_NonFiniteSurfaced ==
  /\ misbehaved = "nonfinite" => pc # "aborted"
  /\ pc = "saved" =>
       /\ Len(store[CurKey].differences) = NDelta
       /\ \A i \in NonFiniteCalls :
            IF \E p \in 1..NPts : IsNaN(calllog[i].result[p])
            THEN IsNaN(store[CurKey].differences[i])
            ELSE store[CurKey].differences[i] = PInf

C3_Witness ==
  /\ pc = "saved"
  /\ \E i \in NonFiniteCalls : \E p \in 1..NPts : IsNaN(calllog[i].result[p])
  /\ \E i \in 1..NDelta : IsFin(store[CurKey].differences[i])

\* C4: shell_exponential_density fails, and returns no FieldSet, whenever
\* b_factor == 0 or top == bottom.
C4_DomainError ==
  (ret.err # "not called" /\ (IsZero(args.b_factor) \/ args.top = args.bottom))
    => ret.err # "none"

\* C5: a failure on one tuple does not end the sweep: every other tuple
\* still gets its record.
C5_FailureIsolated ==
  pc = "aborted" => \A k \in Keys \ {CurKey} : store[k].st = "ok"

\* C6: a tuple whose file is there but malformed is neither skipped as done
\* nor recomputed without a word.
C6_MalformedFailsLoudly ==
  \A k \in skipped \cup wrote : store0[k].st # "malformed"

\* C7: the curve drawn for (field, grid, b_factor) is the elementwise
\* maximum of the stored curves over the thicknesses, NaN wherever one of
\* them is NaN.
C7_CurveIsMaxOverThickness ==
  curve.of # <<>> =>
    /\ Len(curve.vals) = NDelta
    /\ \A i \in 1..NDelta :
         LET col == {store[PlotFileName(curve.of[1], curve.of[2], m,
                                        curve.of[3])].differences[i] : m \in MI}
         IN IF \E v \in col : IsNaN(v)
            THEN IsNaN(curve.vals[i])
            ELSE curve.vals[i] \in col /\ \A v \in col : fLe(v, curve.vals[i])

C7_Witness ==
  /\ curve.of # <<>>
  /\ \E i \in 1..NDelta :
       /\ IsNaN(curve.vals[i])
       /\ \E m \in MI :
            IsFin(store[PlotFileName(curve.of[1], curve.of[2], m,
                                     curve.of[3])].differences[i])

ShellValid == args.top # args.bottom /\ ~IsZero(args.b_factor)

Laplace(d) ==
  /\ fEq(fAdd(fAdd(d.gxx, d.gyy), d.gzz), Zero)
  /\ fEq(d.gxx, d.gyy)
  /\ fEq(d.gzz, fMul(FromInt(-2), d.gxx))

\* potential / r**2, the quotient gxx, gyy and gzz are scaled from
ShellQuotient ==
  fDiv(ret.data.potential, fPow(fAdd(args.height, MEAN_EARTH_RADIUS), 2))

C9_RerunCompletes ==
  (run > 1 /\ pc = "plot_densities") =>
    /\ skipped = {k \in Keys : store0[k].st = "ok"}
    /\ wrote = Keys \ skipped
    /\ AllRecorded(store)

\* C10: every integrator call evaluates the density law solved for the
\* thickness and b_factor of the tuple being computed, the ones of the
\* analytical reference and of the file name the record goes to; the
\* record written is the one the tuple gives on its own, whatever was
\* computed or skipped before.  (calllog holds every call made for the
\* tuple when its record is saved.)
C10_DensityOfThisTuple ==
  pc = "saved" =>
    LET dens == DensityFor(mi, bi)
    IN /\ Len(calllog) = NDelta
       /\ \A i \in 1..Len(calllog) : calllog[i].seen = dens
       /\ Seen(glob) = dens
       /\ FileName(fields[fi], grid_names[gi], glob.thickness, glob.b_factor)
            = CurKey
       /\ CurKey \in wrote
       /\ analytical = AnalyticalFor(gi, mi, bi)
       /\ store[CurKey] = Record(delta_values, DifferencesFor(fi, gi, mi, bi))

C10_Witness ==
  /\ pc = "saved"
  /\ run > 1
  /\ skipped # {}
  /\ bi > 1
  /\ mi > 1
  /\ Len(calllog) = NDelta

=============================================================================
